---- MODULE Spec2Model ----
(***************************************************************************)
(* Cinespace .csp LUT codec (colour/io/luts/cinespace_csp.py):             *)
(* read_LUT_Cinespace and write_LUT_Cinespace as operations on a caller's  *)
(* LUT object and the file at one path.                                    *)
(*                                                                         *)
(* Floating values are fixed-point integers in units of 10^-FracDigits.    *)
(* A number written to the file is a token <<digits, d>>: the value        *)
(* digits * 10^-d printed with d fractional digits (d = -1: an integer     *)
(* literal without a decimal point, d = -2: the text "nan").               *)
(***************************************************************************)
EXTENDS Integers, Sequences, FiniteSets, TLC

VARIABLES lut, file, out, pc, dec

vars == <<lut, file, out, pc, dec>>

(***************************************************************************)
(* Bounds of the model.                                                    *)
(***************************************************************************)
FracDigits == 2

MaxDecimals == 2

MaxRows == 3

MaxCube == 2

(***************************************************************************)
(* Program constants.                                                      *)
(***************************************************************************)
ShaperSizeMin == 2

ShaperSizeMax == 65536

CubeSizeMin == 2

CubeSizeMax == 256

NaN == -1000000000

(***************************************************************************)
(* Arithmetic.                                                             *)
(***************************************************************************)
RECURSIVE Pow10(_)
Pow10(n) == IF n <= 0 THEN 1 ELSE 10 * Pow10(n - 1)

Scale == Pow10(FracDigits)

Abs(x) == IF x < 0 THEN -x ELSE x

\* n / m rounded to the nearest integer, ties to even (m > 0).
RoundHalfEven(n, m) ==
    LET q == n \div m
        r == n % m
    IN  IF 2 * r < m THEN q
        ELSE IF 2 * r > m THEN q + 1
        ELSE IF q % 2 = 0 THEN q ELSE q + 1

SetMin(S) == CHOOSE m \in S : \A x \in S : m <= x

SetMax(S) == CHOOSE m \in S : \A x \in S : m >= x

Max3(a, b, c) == SetMax({a, b, c})

\* The first status of a sequence of statuses that is not "ok".
FirstError(ss) ==
    LET bad == {i \in 1..Len(ss) : ss[i] # "ok"}
    IN  IF bad = {} THEN "ok" ELSE ss[SetMin(bad)]

\* Concatenation of a short sequence of sequences.
RECURSIVE Concat(_)
Concat(ss) == IF ss = <<>> THEN <<>> ELSE Head(ss) \o Concat(Tail(ss))

(***************************************************************************)
(* Tokens and lines of the file.                                           *)
(***************************************************************************)
Tok(v, d) == [v |-> v, d |-> d]

NaNTok == Tok(0, -2)

IntTok(n) == Tok(n, -1)

\* '{0:.{1}f}'.format(x, decimals)
FormatFloat(x, d) ==
    IF x = NaN THEN NaNTok ELSE Tok(RoundHalfEven(x * Pow10(d), Scale), d)

\* '{0:.{1}f}'.format(num / den, decimals) for a ratio of two model values
FormatRatio(num, den, d) ==
    IF num = NaN \/ den = 0 THEN NaNTok
    ELSE IF den < 0 THEN Tok(RoundHalfEven((-num) * Pow10(d), -den), d)
    ELSE Tok(RoundHalfEven(num * Pow10(d), den), d)

\* float(token)
ParseFloat(t) ==
    IF t.d = -2 THEN NaN
    ELSE IF t.d = -1 THEN t.v * Scale
    ELSE RoundHalfEven(t.v * Scale, Pow10(t.d))

Line(t, s, toks) == [t |-> t, s |-> s, toks |-> toks]

Blank == Line("blank", "", <<>>)

\* a line of text; an empty text is a blank line
Txt(s) == IF s = "" THEN Blank ELSE Line("txt", s, <<>>)

Num(toks) == IF toks = <<>> THEN Blank ELSE Line("num", "", toks)

NoFile == [exists |-> FALSE, lines |-> <<>>]

FileOf(ls) == [exists |-> TRUE, lines |-> ls]

(***************************************************************************)
(* LUT objects (colour.io.luts: LUT1D, LUT3x1D, LUT3D, LUTSequence).       *)
(*   LUT1D    domain, table : sequences of values                          *)
(*   LUT3x1D  domain, table : sequences of rows <<r, g, b>>                *)
(*   LUT3D    domain : rows; table : an array [shape, data], data in the   *)
(*            row-major (C) order numpy stores it in                       *)
(***************************************************************************)
LUT(type, name, comments, domain, table) ==
    [type |-> type, name |-> name, comments |-> comments,
     domain |-> domain, table |-> table]

LUTSequence(stages) == [type |-> "LUTSequence", stages |-> stages]

NotALUT == [type |-> "Other"]

unity_range == <<<<0, 0, 0>>, <<Scale, Scale, Scale>>>>

Array(shape, data) == [shape |-> shape, data |-> data]

\* LUT3x1D() and LUT3D() without arguments: the stage the writer pairs a
\* single LUT with.
DefaultLUT3x1D == LUT("LUT3x1D", "Unity", <<>>, unity_range, unity_range)

DefaultLUT3D == LUT("LUT3D", "Unity", <<>>, unity_range, Array(<<0, 0, 0, 3>>, <<>>))

\* LUT.size
Size(L) == IF L.type = "LUT3D" THEN L.table.shape[1] ELSE Len(L.table)

\* LUT.is_domain_explicit()
is_domain_explicit(L) == Len(L.domain) # 2

\* LUT1D.as_LUT(LUT3x1D)
as_LUT3x1D(L) ==
    LUT("LUT3x1D", L.name, L.comments,
        [j \in 1..Len(L.domain) |-> <<L.domain[j], L.domain[j], L.domain[j]>>],
        [j \in 1..Len(L.table) |-> <<L.table[j], L.table[j], L.table[j]>>])

(***************************************************************************)
(* numpy reshape(..., order='F') on arrays stored in C order.              *)
(***************************************************************************)
RECURSIVE Prod(_)
Prod(shape) == IF shape = <<>> THEN 1 ELSE Head(shape) * Prod(Tail(shape))

\* 0-based multi-index of Fortran-order position p: first axis fastest
RECURSIVE FUnravel(_, _)
FUnravel(shape, p) ==
    IF shape = <<>> THEN <<>>
    ELSE <<p % Head(shape)>> \o FUnravel(Tail(shape), p \div Head(shape))

\* Fortran-order position of a 0-based multi-index
RECURSIVE FRavel(_, _)
FRavel(shape, idx) ==
    IF shape = <<>> THEN 0
    ELSE Head(idx) + Head(shape) * FRavel(Tail(shape), Tail(idx))

\* 0-based multi-index of C-order position q: last axis fastest
RECURSIVE CUnravel(_, _)
CUnravel(shape, q) ==
    IF shape = <<>> THEN <<>>
    ELSE LET n == Len(shape)
             rest == SubSeq(shape, 1, n - 1)
         IN  CUnravel(rest, q \div shape[n]) \o <<q % shape[n]>>

\* C-order position of a 0-based multi-index
RECURSIVE CRavel(_, _)
CRavel(shape, idx) ==
    IF shape = <<>> THEN 0
    ELSE LET n == Len(shape)
         IN  idx[n] + shape[n] * CRavel(SubSeq(shape, 1, n - 1), SubSeq(idx, 1, n - 1))

\* a.reshape(newshape) in the default C order: the data as it is stored
ReshapeC(a, newshape) == Array(newshape, a.data)

\* a.reshape(newshape, order='F'): the element at Fortran position p of the
\* result is the element at Fortran position p of a.
ReshapeF(a, newshape) ==
    Array(newshape,
          [k \in 1..Prod(newshape) |->
              a.data[CRavel(a.shape,
                            FUnravel(a.shape,
                                     FRavel(newshape, CUnravel(newshape, k - 1)))) + 1]])

\* a 2-D array given as rows, and back
ArrayOfRows(rows, width) ==
    Array(<<Len(rows), width>>,
          [k \in 1..(Len(rows) * width) |-> rows[((k - 1) \div width) + 1][((k - 1) % width) + 1]])

RowsOfArray(a) ==
    [k \in 1..a.shape[1] |-> [c \in 1..a.shape[2] |-> a.data[(k - 1) * a.shape[2] + c]]]

(***************************************************************************)
(* write_LUT_Cinespace(LUT, path, decimals)                                *)
(***************************************************************************)
\* the assertion on a LUTSequence
SequenceShapeOK(S) ==
    /\ Len(S.stages) = 2
    /\ S.stages[1].type \in {"LUT1D", "LUT3x1D"}
    /\ S.stages[2].type = "LUT3D"

\* LUT[0] = LUT[0].as_LUT(LUT3x1D): item assignment on the sequence object
\* the caller passed
ConvertStage0(S) == [S EXCEPT !.stages[1] = as_LUT3x1D(S.stages[1])]

\* The type dispatch: the two-stage sequence the writer works on, its
\* flags, and the caller's object as the dispatch leaves it.
Canonical(L) ==
    IF L.type = "LUTSequence" THEN
        IF ~SequenceShapeOK(L) THEN [status |-> "SequenceShapeError", caller |-> L]
        ELSE LET conv == L.stages[1].type = "LUT1D"
                 S == IF conv THEN ConvertStage0(L) ELSE L
             IN  [status |-> "ok", caller |-> S, stages |-> S.stages,
                  has_3D |-> TRUE, has_3x1D |-> TRUE,
                  non_uniform |-> conv /\ is_domain_explicit(L.stages[1]),
                  name |-> L.stages[2].name]
    ELSE IF L.type = "LUT1D" THEN
        [status |-> "ok", caller |-> L, stages |-> <<as_LUT3x1D(L), DefaultLUT3D>>,
         has_3D |-> FALSE, has_3x1D |-> TRUE,
         non_uniform |-> is_domain_explicit(L), name |-> L.name]
    ELSE IF L.type = "LUT3x1D" THEN
        [status |-> "ok", caller |-> L, stages |-> <<L, DefaultLUT3D>>,
         has_3D |-> FALSE, has_3x1D |-> TRUE,
         non_uniform |-> is_domain_explicit(L), name |-> L.name]
    ELSE IF L.type = "LUT3D" THEN
        [status |-> "ok", caller |-> L, stages |-> <<DefaultLUT3x1D, L>>,
         has_3D |-> TRUE, has_3x1D |-> FALSE,
         non_uniform |-> FALSE, name |-> L.name]
    ELSE [status |-> "ValueError", caller |-> L]

\* the lower limit off by one
ShaperSizeOK_FromOne(n) == 1 <= n /\ n <= ShaperSizeMax

ShaperSizeOK(n) == ShaperSizeMin <= n /\ n <= ShaperSizeMax

CubeSizeOK(n) == CubeSizeMin <= n /\ n <= CubeSizeMax

\* the two size assertions, in the order the code makes them
SizeCheck(c) ==
    IF c.has_3x1D /\ ~ShaperSizeOK(Size(c.stages[1])) THEN "ShaperSizeError"
    ELSE IF c.has_3D /\ ~CubeSizeOK(Size(c.stages[2])) THEN "CubeSizeError"
    ELSE "ok"

\* _ragged_size(table)[i]
ragged_size(table, i) == Len(table) - Cardinality({j \in 1..Len(table) : table[j][i] = NaN})

TableValues(table) == {table[j][i] : j \in 1..Len(table), i \in 1..3} \ {NaN}

\* np.nanmin(table), np.nanmax(table)
nanmin(table) == IF TableValues(table) = {} THEN NaN ELSE SetMin(TableValues(table))

nanmax(table) == IF TableValues(table) = {} THEN NaN ELSE SetMax(TableValues(table))

\* _format_array(array), _format_tuple(array)
format_array(row, d) == Num(<<FormatFloat(row[1], d), FormatFloat(row[2], d), FormatFloat(row[3], d)>>)

format_tuple(pair, d) == Num(<<FormatFloat(pair[1], d), FormatFloat(pair[2], d)>>)

\* one domain sample of channel i of the shaper block (j from 0)
ShaperDomainEntry(S0, i, j, d) ==
    IF is_domain_explicit(S0) THEN FormatFloat(S0.domain[j + 1][i], d)
    ELSE FormatRatio(S0.domain[1][i] * (Size(S0) - 1) + j * (S0.domain[2][i] - S0.domain[1][i]),
                     (Size(S0) - 1) * Scale, d)

\* one table sample of channel i of the shaper block (j from 0)
ShaperTableEntry(S0, i, j, non_uniform, d) ==
    LET entry == S0.table[j + 1][i]
        table_min == nanmin(S0.table)
        table_max == nanmax(S0.table)
    IN  IF ~non_uniform THEN FormatFloat(entry, d)
        ELSE IF entry = NaN \/ table_min = NaN THEN NaNTok
        ELSE FormatRatio(entry - table_min, table_max - table_min, d)

\* the three lines of channel i of the shaper block
ShaperGroup(S0, i, non_uniform, d) ==
    LET size == IF is_domain_explicit(S0) THEN ragged_size(S0.domain, i) ELSE Size(S0)
    IN  <<Num(<<IntTok(size)>>),
          Num([j \in 1..size |-> ShaperDomainEntry(S0, i, j - 1, d)]),
          Num([j \in 1..size |-> ShaperTableEntry(S0, i, j - 1, non_uniform, d)])>>

\* with a cube and no shaper: three 2-sample groups on the cube's domain
TrivialGroup3D(S1, i, d) ==
    <<Num(<<IntTok(2)>>),
      format_tuple(<<S1.domain[1][i], S1.domain[2][i]>>, d),
      Num(<<FormatFloat(0, d), FormatFloat(Scale, d)>>)>>

\* the pure 1-D uniform case: three 2-sample groups on the shaper's domain,
\* the table samples being the literal text '0.0 1.0'
TrivialGroup1D(S0, i, d) ==
    <<Num(<<IntTok(2)>>),
      format_tuple(<<S0.domain[1][i], S0.domain[2][i]>>, d),
      Num(<<Tok(0, 1), Tok(10, 1)>>)>>

\* the table block after a shaper block
TableBlock(c, d) ==
    IF c.non_uniform THEN
        LET table_min == nanmin(c.stages[1].table)
            table_max == nanmax(c.stages[1].table)
        IN  <<Blank, Num(<<IntTok(2)>>),
              format_array(<<table_min, table_min, table_min>>, d),
              format_array(<<table_max, table_max, table_max>>, d)>>
    ELSE
        LET T == c.stages[2].table
            flat == RowsOfArray(ReshapeF(T, <<Prod(T.shape) \div 3, 3>>))
        IN  <<Blank, Num(<<IntTok(T.shape[1]), IntTok(T.shape[2]), IntTok(T.shape[3])>>)>>
            \o [k \in 1..Len(flat) |-> format_array(flat[k], d)]

\* header, kind and metadata
Preamble(c) ==
    <<Txt("CSPLUTV100"), Txt(IF c.has_3D THEN "3D" ELSE "1D"), Blank,
      Txt("BEGIN METADATA"), Txt(c.name)>>
    \o [k \in 1..Len(c.stages[1].comments) |-> Txt(c.stages[1].comments[k])]
    \o [k \in 1..Len(c.stages[2].comments) |-> Txt(c.stages[2].comments[k])]
    \o <<Txt("END METADATA"), Blank>>

\* everything after the metadata
Body(c, d) ==
    IF c.has_3D \/ c.non_uniform THEN
        (IF c.has_3x1D
         THEN Concat([i \in 1..3 |-> ShaperGroup(c.stages[1], i, c.non_uniform, d)])
         ELSE Concat([i \in 1..3 |-> TrivialGroup3D(c.stages[2], i, d)]))
        \o TableBlock(c, d)
    ELSE
        Concat([i \in 1..3 |-> TrivialGroup1D(c.stages[1], i, d)])
        \o <<Blank, Num(<<IntTok(Size(c.stages[1]))>>)>>
        \o [k \in 1..Len(c.stages[1].table) |-> format_array(c.stages[1].table[k], d)]

\* The outcome of write_LUT_Cinespace(L, path, d) with file f at path: the
\* status, the caller's object afterwards, and the file afterwards.  The
\* file is opened (and truncated) only after every check has passed.
write_LUT_Cinespace(L, f, d) ==
    LET c == Canonical(L)
    IN  IF c.status # "ok" THEN [status |-> c.status, caller |-> c.caller, file |-> f]
        ELSE IF SizeCheck(c) # "ok"
             THEN [status |-> SizeCheck(c), caller |-> c.caller, file |-> f]
        ELSE [status |-> "ok", caller |-> c.caller,
              file |-> FileOf(Preamble(c) \o Body(c, d))]

(***************************************************************************)
(* read_LUT_Cinespace(path)                                                *)
(***************************************************************************)
Fail(status) == [status |-> status]

Return(value) == [status |-> "ok", value |-> value]

IsText(l, s) == l.t = "txt" /\ l.s = s

\* [line.strip() for line in lines if line.strip()]
Normalize(ls) == SelectSeq(ls, LAMBDA l : l.t # "blank")

\* lines[a:b] of Python, on a 1-based sequence
Slice(ls, a, b) == SubSeq(ls, a + 1, IF b < Len(ls) THEN b ELSE Len(ls))

\* The loop over lines[2:]: the metadata lines and the value of seek after
\* the loop.
ScanMetadata(lines) ==
    LET rest == Slice(lines, 2, Len(lines))
        ends == {i \in 1..Len(rest) : IsText(rest[i], "END METADATA")}
        scanned == IF ends = {} THEN rest ELSE SubSeq(rest, 1, SetMin(ends) - 1)
        begins == {i \in 1..Len(scanned) : IsText(scanned[i], "BEGIN METADATA")}
        after == IF begins = {} THEN <<>>
                 ELSE SubSeq(scanned, SetMin(begins) + 1, Len(scanned))
    IN  [metadata |-> SelectSeq(after, LAMBDA l : ~IsText(l, "BEGIN METADATA")),
         seek |-> 2 + (IF ends = {} THEN 0 ELSE SetMin(ends) - 1)]

\* _parse_metadata_section(metadata)
parse_metadata_section(metadata) ==
    IF Len(metadata) > 0
    THEN [title |-> metadata[1].s,
          comments |-> [k \in 1..(Len(metadata) - 1) |-> metadata[k + 1].s]]
    ELSE [title |-> "", comments |-> <<>>]

\* int(line) succeeds
IsIntLine(l) == l.t = "num" /\ Len(l.toks) = 1 /\ l.toks[1].d = -1

\* as_float_array(line.split())
FloatsOf(l) == [k \in 1..Len(l.toks) |-> ParseFloat(l.toks[k])]

\* np.pad(row, (0, n - len(row)), constant_values=nan)
PadRow(row, n) == [k \in 1..n |-> IF k <= Len(row) THEN row[k] ELSE NaN]

\* _parse_domain_section(lines): the padded 6 x N matrix, or the exception
parse_domain_section(ls) ==
    LET SizeStatus(i) == IF i + 1 > Len(ls) THEN "IndexError"
                         ELSE IF ~IsIntLine(ls[i + 1]) THEN "ValueError" ELSE "ok"
        RowStatus(i) == IF i + 1 > Len(ls) THEN "IndexError"
                        ELSE IF ls[i + 1].t # "num" THEN "ValueError" ELSE "ok"
        parsing == FirstError(<<SizeStatus(0), SizeStatus(3), SizeStatus(6),
                                RowStatus(1), RowStatus(2), RowStatus(4),
                                RowStatus(5), RowStatus(7), RowStatus(8)>>)
        pre_LUT_size == Max3(ls[1].toks[1].v, ls[4].toks[1].v, ls[7].toks[1].v)
        rowAt == <<2, 3, 5, 6, 8, 9>>
        PadStatus(r) == IF Len(ls[rowAt[r]].toks) > pre_LUT_size THEN "ValueError" ELSE "ok"
        padding == FirstError([r \in 1..6 |-> PadStatus(r)])
    IN  IF parsing # "ok" THEN Fail(parsing)
        ELSE IF padding # "ok" THEN Fail(padding)
        ELSE Return([r \in 1..6 |-> PadRow(FloatsOf(ls[rowAt[r]]), pre_LUT_size)])

\* _parse_table_section(lines): size and table, or the exception
parse_table_section(ls) ==
    LET rows == Slice(ls, 1, Len(ls))
    IN  IF Len(ls) = 0 THEN Fail("IndexError")
        ELSE IF ls[1].t # "num" \/ \E k \in 1..Len(ls[1].toks) : ls[1].toks[k].d # -1
             THEN Fail("ValueError")
        ELSE IF \E k \in 1..Len(rows) : rows[k].t # "num" \/ Len(rows[k].toks) # Len(rows[1].toks)
             THEN Fail("ValueError")
        ELSE Return([size |-> [k \in 1..Len(ls[1].toks) |-> ls[1].toks[k].v],
                     table |-> [k \in 1..Len(rows) |-> FloatsOf(rows[k])]])

\* pre_LUT.reshape(3, 4).transpose(), for a 6 x 2 pre_LUT: rows 1-2 are the
\* domain samples of the three channels, rows 3-4 their table samples
PreTransposed(pre_LUT) ==
    LET flat == ArrayOfRows(pre_LUT, 2).data
    IN  [k \in 1..4 |-> [c \in 1..3 |-> flat[(c - 1) * 4 + k]]]

\* the test made on the domain samples as well as the table samples
IsTrivialShaper_DomainToo(pre_LUT) ==
    /\ Len(pre_LUT[1]) = 2
    /\ SubSeq(PreTransposed(pre_LUT), 1, 2) = unity_range
    /\ SubSeq(PreTransposed(pre_LUT), 3, 4) = unity_range

\* the test both collapsing branches make on the shaper block
IsTrivialShaper(pre_LUT) ==
    /\ Len(pre_LUT[1]) = 2
    /\ SubSeq(PreTransposed(pre_LUT), 3, 4) = unity_range

\* tstack((pre_LUT[a], pre_LUT[b], pre_LUT[c]))
tstack(ra, rb, rc) == [j \in 1..Len(ra) |-> <<ra[j], rb[j], rc[j]>>]

\* table.reshape([size[0], size[1], size[2], 3], order='F')
ReshapeTable3D(size, table) ==
    LET width == IF Len(table) = 0 THEN 0 ELSE Len(table[1])
    IN  IF Len(size) < 3 THEN Fail("IndexError")
        ELSE IF size[1] * size[2] * size[3] * 3 # Len(table) * width THEN Fail("ValueError")
        ELSE Return(ReshapeF(ArrayOfRows(table, width), <<size[1], size[2], size[3], 3>>))

\* pre_table *= (table_max - table_min); pre_table += table_min
Rescale(pre_table, table_min, table_max) ==
    [j \in 1..Len(pre_table) |->
        [c \in 1..3 |->
            IF pre_table[j][c] = NaN \/ table_min[c] = NaN \/ table_max[c] = NaN THEN NaN
            ELSE RoundHalfEven(pre_table[j][c] * (table_max[c] - table_min[c]), Scale)
                 + table_min[c]]]

\* kind 3D, trivial shaper: a single LUT3D on the shaper block's domain
Collapse3D(title, comments, pre_LUT, size, table) ==
    LET T == ReshapeTable3D(size, table)
    IN  IF T.status # "ok" THEN T
        ELSE Return(LUT("LUT3D", title, comments,
                        SubSeq(PreTransposed(pre_LUT), 1, 2), T.value))

\* kind 1D, trivial shaper: a single LUT3x1D on the shaper block's domain
Collapse1D(title, comments, pre_LUT, table) ==
    Return(LUT("LUT3x1D", title, comments, SubSeq(PreTransposed(pre_LUT), 1, 2), table))

\* the comments given to the shaper instead of the cube
Assemble3D_CommentsOnShaper(title, comments, pre_LUT, size, table) ==
    LET pre_domain == tstack(pre_LUT[1], pre_LUT[3], pre_LUT[5])
        pre_table == tstack(pre_LUT[2], pre_LUT[4], pre_LUT[6])
        T == ReshapeTable3D(size, table)
    IN  IF T.status # "ok" THEN T
        ELSE Return(LUTSequence(
                 <<LUT("LUT3x1D", title \o " - Shaper", comments, pre_domain, pre_table),
                   LUT("LUT3D", title \o " - Cube", <<>>, unity_range, T.value)>>))

\* kind 3D, any other shaper: shaper + cube
Assemble3D(title, comments, pre_LUT, size, table) ==
    LET pre_domain == tstack(pre_LUT[1], pre_LUT[3], pre_LUT[5])
        pre_table == tstack(pre_LUT[2], pre_LUT[4], pre_LUT[6])
        T == ReshapeTable3D(size, table)
    IN  IF T.status # "ok" THEN T
        ELSE Return(LUTSequence(
                 <<LUT("LUT3x1D", title \o " - Shaper", <<>>, pre_domain, pre_table),
                   LUT("LUT3D", title \o " - Cube", comments, unity_range, T.value)>>))

\* the second stage built as a LUT1D
Assemble1D_TableAsLUT1D(title, comments, pre_LUT, table) ==
    LET pre_domain == tstack(pre_LUT[1], pre_LUT[3], pre_LUT[5])
        pre_table == tstack(pre_LUT[2], pre_LUT[4], pre_LUT[6])
    IN  IF Len(table) = 2 /\ Len(table[1]) = 3
        THEN Return(LUT("LUT3x1D", title, comments, pre_domain,
                        Rescale(pre_table, table[1], table[2])))
        ELSE Return(LUTSequence(
                 <<LUT("LUT3x1D", title \o " - PreLUT", <<>>, pre_domain, pre_table),
                   LUT("LUT1D", title \o " - Table", comments, unity_range, table)>>))

\* kind 1D, any other shaper: a rescaled shaper, or shaper + table
Assemble1D(title, comments, pre_LUT, table) ==
    LET pre_domain == tstack(pre_LUT[1], pre_LUT[3], pre_LUT[5])
        pre_table == tstack(pre_LUT[2], pre_LUT[4], pre_LUT[6])
    IN  IF Len(table) = 2 /\ Len(table[1]) = 3
        THEN Return(LUT("LUT3x1D", title, comments, pre_domain,
                        Rescale(pre_table, table[1], table[2])))
        ELSE Return(LUTSequence(
                 <<LUT("LUT3x1D", title \o " - PreLUT", <<>>, pre_domain, pre_table),
                   LUT("LUT3x1D", title \o " - Table", comments, unity_range, table)>>))

\* the four return statements, in the order the code tries them
Classify(is_3D, title, comments, pre_LUT, size, table) ==
    IF is_3D /\ IsTrivialShaper(pre_LUT) THEN Collapse3D(title, comments, pre_LUT, size, table)
    ELSE IF ~is_3D /\ IsTrivialShaper(pre_LUT) THEN Collapse1D(title, comments, pre_LUT, table)
    ELSE IF is_3D THEN Assemble3D(title, comments, pre_LUT, size, table)
    ELSE Assemble1D(title, comments, pre_LUT, table)

\* assert len(lines) > 0, made on the lines as readlines() returns them
EmptyCheck(raw) == Len(raw) > 0

\* everything after the header and the kind have been accepted
ReadBody(lines) ==
    LET is_3D == IsText(lines[2], "3D")
        scan == ScanMetadata(lines)
        meta == parse_metadata_section(scan.metadata)
        seek == scan.seek + 1
        pre == parse_domain_section(Slice(lines, seek, seek + 9))
        tab == parse_table_section(Slice(lines, seek + 9, Len(lines)))
    IN  IF pre.status # "ok" THEN pre
        ELSE IF tab.status # "ok" THEN tab
        ELSE IF Prod(tab.value.size) # Len(tab.value.table) THEN Fail("InvalidTableSize")
        ELSE Classify(is_3D, meta.title, meta.comments, pre.value,
                      tab.value.size, tab.value.table)

\* The outcome of read_LUT_Cinespace(path) with file f at path.
read_LUT_Cinespace(f) ==
    LET lines == Normalize(f.lines)
    IN  IF ~f.exists THEN Fail("FileNotFoundError")
        ELSE IF ~EmptyCheck(f.lines) THEN Fail("EmptyFileError")
        ELSE IF Len(lines) < 1 THEN Fail("IndexError")
        ELSE IF ~IsText(lines[1], "CSPLUTV100") THEN Fail("InvalidHeaderError")
        ELSE IF Len(lines) < 2 THEN Fail("IndexError")
        ELSE IF ~(IsText(lines[2], "1D") \/ IsText(lines[2], "3D")) THEN Fail("InvalidKindError")
        ELSE ReadBody(lines)

(***************************************************************************)
(* The caller's LUT objects.  H(k) is the value k / 100.                   *)
(***************************************************************************)
H(k) == k * Pow10(FracDigits - 2)

Names == {"", "T"}

CommentLists == {<<>>, <<"c1", "c2">>}

Decimals == 0..MaxDecimals

\* n rows <<r, g, b>> of distinct values a, a + b, a + 2b, ...
Ramp3(n, a, b) == [j \in 1..n |-> [c \in 1..3 |-> H(a + b * (3 * (j - 1) + c - 1))]]

\* n distinct values
Ramp1(n, a, b) == [j \in 1..n |-> H(a + b * (j - 1))]

\* an explicit domain of n rows; a ragged one ends channel 3 one row early
ExplicitDomain(n, ragged) ==
    [j \in 1..n |-> <<H(10 * (j - 1)), H(20 * (j - 1)),
                       IF ragged /\ j = n THEN NaN ELSE H(5 * (j - 1))>>]

RaggedTable(t) == [j \in 1..Len(t) |-> <<t[j][1], t[j][2], IF j = Len(t) THEN NaN ELSE t[j][3]>>]

NonUnityDomain == <<<<H(-10), H(-20), H(-40)>>, <<H(150), H(300), H(600)>>>>

Tables3x1D(n) == {Ramp3(n, 0, 7), Ramp3(n, -50, 33), Ramp3(n, 25, 0)}

LUT3x1Ds ==
    {LUT("LUT3x1D", nm, cm, dm, tb) :
        nm \in Names, cm \in CommentLists, dm \in {unity_range, NonUnityDomain},
        tb \in UNION {Tables3x1D(n) : n \in 2..MaxRows}}
    \cup
    {LUT("LUT3x1D", nm, cm, ExplicitDomain(Len(tb), FALSE), tb) :
        nm \in Names, cm \in CommentLists, tb \in UNION {Tables3x1D(n) : n \in 3..MaxRows}}
    \cup
    {LUT("LUT3x1D", nm, cm, ExplicitDomain(Len(tb), TRUE), RaggedTable(tb)) :
        nm \in Names, cm \in CommentLists, tb \in UNION {Tables3x1D(n) : n \in 3..MaxRows}}

LUT1Ds ==
    {LUT("LUT1D", nm, cm, dm, Ramp1(n, 5, 45)) :
        nm \in Names, cm \in CommentLists, dm \in {<<0, Scale>>, <<H(-10), H(150)>>},
        n \in 2..MaxRows}
    \cup
    {LUT("LUT1D", nm, cm, Ramp1(n, 0, 30), Ramp1(n, 5, 45)) :
        nm \in Names, cm \in CommentLists, n \in 3..MaxRows}

CubeShapes == {<<n, n, n>> : n \in 2..MaxCube} \cup {<<2, 3, 4>>}

\* a cube whose values are all distinct
Cube(shape) == Array(shape \o <<3>>, [k \in 1..(Prod(shape) * 3) |-> H(k - 10)])

LUT3Ds ==
    {LUT("LUT3D", nm, cm, dm, Cube(sh)) :
        nm \in Names, cm \in CommentLists, dm \in {unity_range, NonUnityDomain},
        sh \in CubeShapes}

Cube2 == LUT("LUT3D", "T", <<>>, unity_range, Cube(<<2, 2, 2>>))

Shaper2 == LUT("LUT3x1D", "T", <<>>, unity_range, Ramp3(2, 0, 7))

\* sizes around the limits of the two size assertions
EdgeShapers3x1D ==
    {LUT("LUT3x1D", "T", <<>>, unity_range, [j \in 1..n |-> <<0, 0, 0>>]) :
        n \in {1, ShaperSizeMax + 1}}

EdgeShapers1D ==
    {LUT("LUT1D", "T", <<>>, <<0, Scale>>, [j \in 1..n |-> 0]) : n \in {1}}

EdgeCubes ==
    {LUT("LUT3D", "T", <<>>, unity_range, Array(<<n, 2, 2, 3>>, [k \in 1..(n * 12) |-> 0])) :
        n \in {1, CubeSizeMax, CubeSizeMax + 1}}

Stages0_3x1D ==
    {LUT("LUT3x1D", "T", <<"c1", "c2">>, dm, Ramp3(2, 0, 7)) : dm \in {unity_range, NonUnityDomain}}
    \cup {LUT("LUT3x1D", "T", <<"c1", "c2">>, ExplicitDomain(3, FALSE), Ramp3(3, 0, 7)),
          LUT("LUT3x1D", "T", <<"c1", "c2">>, ExplicitDomain(3, TRUE), RaggedTable(Ramp3(3, 0, 7)))}
    \cup EdgeShapers3x1D

Stages0_1D ==
    {LUT("LUT1D", "T", <<"c1", "c2">>, <<0, Scale>>, Ramp1(3, 5, 45)),
     LUT("LUT1D", "T", <<"c1", "c2">>, <<H(-10), H(150)>>, Ramp1(2, 5, 45)),
     LUT("LUT1D", "T", <<"c1", "c2">>, Ramp1(3, 0, 30), Ramp1(3, 5, 45))}
    \cup EdgeShapers1D

Stages1 ==
    {L \in LUT3Ds : L.name = "T" /\ L.comments = <<>> /\ L.domain = unity_range}
    \cup EdgeCubes

\* the over-long shaper is paired with the cubes that are in range
Sequences3x1D ==
    {S \in {LUTSequence(<<a, b>>) : a \in Stages0_3x1D, b \in Stages1} :
        Len(S.stages[1].table) <= ShaperSizeMax \/ CubeSizeOK(S.stages[2].table.shape[1])}

Sequences1D == {LUTSequence(<<a, b>>) : a \in Stages0_1D, b \in Stages1}

\* sequences of any other shape
OddSequences ==
    {LUTSequence(<<>>), LUTSequence(<<Cube2>>), LUTSequence(<<Cube2, Cube2>>),
     LUTSequence(<<Shaper2, Cube2, Cube2>>)}

OddSequences3x1D == {LUTSequence(<<Shaper2, Shaper2>>)}

(***************************************************************************)
(* Files for the reader.  F(k) is the text of k / 100 with two fractional  *)
(* digits.                                                                 *)
(***************************************************************************)
F(k) == Tok(k, 2)

Group(size, dom, tab) == <<Num(<<IntTok(size)>>), Num(dom), Num(tab)>>

\* the shaper groups a channel may have
Triv == Group(2, <<F(0), F(100)>>, <<F(0), F(100)>>)

DomNU == Group(2, <<F(-10), F(150)>>, <<F(0), F(100)>>)

TabNU == Group(2, <<F(0), F(100)>>, <<F(0), F(50)>>)

Three == Group(3, <<F(0), F(50), F(100)>>, <<F(0), F(30), F(100)>>)

\* declared 3 samples with rows of 2, declared 2 samples with rows of 3
ShortRows == Group(3, <<F(0), F(100)>>, <<F(0), F(100)>>)

LongRows == Group(2, <<F(0), F(50), F(100)>>, <<F(0), F(30), F(100)>>)

ShaperBlocks ==
    {a \o a \o a : a \in {Triv, DomNU, TabNU, Three}}
    \cup {a \o Triv \o Triv : a \in {DomNU, TabNU, Three}}
    \cup {Triv \o a \o Triv : a \in {DomNU, TabNU, Three}}
    \cup {Triv \o Triv \o a : a \in {DomNU, TabNU, Three}}
    \cup {Three \o DomNU \o TabNU,
          Triv \o ShortRows \o Triv, Triv \o Triv \o LongRows, Triv \o Triv,
          Triv \o Triv \o <<Txt("x"), Num(<<F(0), F(100)>>), Num(<<F(0), F(100)>>)>>}

\* n rows of distinct values
Rows(n) == [k \in 1..n |-> Num(<<F(3 * k), F(3 * k + 1), F(3 * k + 2)>>)]

TableBlocks ==
    {<<Blank, Num(<<IntTok(2)>>)>> \o Rows(2),
     <<Blank, Num(<<IntTok(3)>>)>> \o Rows(3),
     <<Blank, Num(<<IntTok(3)>>)>> \o Rows(2),
     <<Blank, Num(<<IntTok(2), IntTok(2), IntTok(2)>>)>> \o Rows(8),
     <<Blank, Num(<<IntTok(2), IntTok(1), IntTok(3)>>)>> \o Rows(6),
     <<Blank, Num(<<IntTok(1), IntTok(2), IntTok(1)>>)>> \o Rows(2),
     <<Blank, Num(<<IntTok(2), IntTok(2), IntTok(2)>>)>> \o Rows(7),
     <<>>}

MetadataBlocks ==
    {<<Txt("BEGIN METADATA"), Txt("T"), Txt("c1"), Txt("END METADATA"), Blank>>,
     <<Txt("BEGIN METADATA"), Txt("T"), Txt("END METADATA"), Blank>>,
     <<Txt("BEGIN METADATA"), Txt("END METADATA"), Blank>>,
     <<Txt("BEGIN METADATA"), Txt("T")>>,
     <<>>}

GrammarFiles ==
    {<<Txt("CSPLUTV100"), Txt(k), Blank>> \o m \o sh \o tb :
        k \in {"1D", "3D"}, m \in MetadataBlocks, sh \in ShaperBlocks, tb \in TableBlocks}

\* files that end before the shaper block, or begin badly
BrokenFiles ==
    {<<>>, <<Blank>>, <<Blank, Blank, Blank>>, <<Txt("CSPLUTV100")>>,
     <<Blank, Txt("CSPLUTV100"), Blank>>,
     <<Txt("CSPLUTV200"), Txt("3D")>>, <<Txt("CSPLUTV100"), Txt("2D")>>,
     <<Txt("CSPLUTV100"), Txt("3D")>>,
     <<Blank, Txt("3D"), Txt("CSPLUTV100")>>}

ReadFiles == {FileOf(ls) : ls \in GrammarFiles \cup BrokenFiles}

\* what a caller may find at the path before writing
StaleFile == FileOf(<<Txt("stale")>>)

(***************************************************************************)
(* The two operations as actions.  lut is the object the caller holds,     *)
(* file the file at the path, out the outcome of the calls made so far,    *)
(* dec the decimals argument of the write.                                 *)
(***************************************************************************)
NoValue == [type |-> "None"]

Init ==
    /\ pc = "idle"
    /\ dec = 0
    /\ out = [write |-> "none", read |-> "none", value |-> NoValue]
    /\ \/ /\ file \in {NoFile, StaleFile}
          /\ \/ lut \in LUT3x1Ds
             \/ lut \in LUT1Ds
             \/ lut \in LUT3Ds
             \/ lut \in EdgeShapers3x1D
             \/ lut \in EdgeShapers1D
             \/ lut \in EdgeCubes
             \/ lut \in Sequences3x1D
             \/ lut \in Sequences1D
             \/ lut \in OddSequences
             \/ lut \in OddSequences3x1D
       \/ /\ file \in ReadFiles
          /\ lut = NotALUT

Write(d) ==
    /\ pc = "idle"
    /\ LET r == write_LUT_Cinespace(lut, file, d)
       IN  /\ lut' = r.caller
           /\ file' = r.file
           /\ out' = [out EXCEPT !.write = r.status]
    /\ dec' = d
    /\ pc' = "written"

Read ==
    /\ pc \in {"idle", "written"}
    /\ LET r == read_LUT_Cinespace(file)
       IN  out' = [out EXCEPT !.read = r.status,
                              !.value = IF r.status = "ok" THEN r.value ELSE NoValue]
    /\ pc' = "read"
    /\ UNCHANGED <<lut, file, dec>>

Next == (\E d \in Decimals : Write(d)) \/ Read

Spec == Init /\ [][Next]_vars

(***************************************************************************)
(* Properties.                                                             *)
(***************************************************************************)
\* two values equal to d decimal places (padding equals padding)
ApproxEq(a, b, d) ==
    IF a = NaN \/ b = NaN THEN a = b ELSE 2 * Pow10(d) * Abs(a - b) <= Scale

ApproxRows(A, B, d) ==
    /\ Len(A) = Len(B)
    /\ \A j \in 1..Len(A) : /\ Len(A[j]) = Len(B[j])
                             /\ \A c \in 1..Len(A[j]) : ApproxEq(A[j][c], B[j][c], d)

ApproxArray(A, B, d) ==
    /\ A.shape = B.shape
    /\ \A k \in 1..Len(A.data) : ApproxEq(A.data[k], B.data[k], d)

\* two single LUTs of one type, equal to d decimal places
SameLUT(A, B, d) ==
    /\ A.type = B.type
    /\ A.name = B.name
    /\ A.comments = B.comments
    /\ ApproxRows(A.domain, B.domain, d)
    /\ IF A.type = "LUT3D" THEN ApproxArray(A.table, B.table, d)
       ELSE ApproxRows(A.table, B.table, d)

\* C1: write_LUT_Cinespace leaves the caller's object as it was, whether
\* it returns or fails.
C1_CallerUnchanged == [][lut' = lut]_vars

\* C2: reading back the file written from a LUT3x1D or LUT3D gives a single
\* LUT of the same type with the same name and comments, and the same
\* domain and table to `decimals` places.
C2_RoundTrip ==
    (pc = "read" /\ out.write = "ok" /\ lut.type \in {"LUT3x1D", "LUT3D"})
        => (out.read = "ok" /\ SameLUT(out.value, lut, dec))

(***************************************************************************)
(* The file at the path, read by the grammar of the format rather than by  *)
(* the reader: its kind, title, comments, shaper block and table block.    *)
(***************************************************************************)
\* header, kind, a metadata block, nine shaper lines and a size line
WellFormedLines(nl) ==
    LET ends == {i \in 1..Len(nl) : IsText(nl[i], "END METADATA")}
        e == SetMin(ends)
    IN  /\ Len(nl) >= 4 /\ IsText(nl[1], "CSPLUTV100")
        /\ IsText(nl[3], "BEGIN METADATA")
        /\ ends # {}
        /\ Len(nl) >= e + 10
        /\ \A k \in 1..10 : nl[e + k].t = "num"
        /\ \A c \in 0..2 : IsIntLine(nl[e + 3 * c + 1])

\* the parts of well-formed lines; channel c of the shaper block is
\* declared[c], domain[c], table[c]
GrammarOf(nl) ==
    LET e == SetMin({i \in 1..Len(nl) : IsText(nl[i], "END METADATA")})
    IN  [kind |-> nl[2].s,
         title |-> IF e > 4 THEN nl[4].s ELSE "",
         comments |-> IF e > 5 THEN [k \in 1..(e - 5) |-> nl[4 + k].s] ELSE <<>>,
         declared |-> [c \in 1..3 |-> nl[e + 3 * c - 2].toks[1].v],
         domain |-> [c \in 1..3 |-> FloatsOf(nl[e + 3 * c - 1])],
         table |-> [c \in 1..3 |-> FloatsOf(nl[e + 3 * c])],
         sizeLine |-> nl[e + 10],
         rows |-> [k \in 1..(Len(nl) - e - 10) |-> nl[e + 10 + k]]]

WellFormed == file.exists /\ WellFormedLines(Normalize(file.lines))

Grammar == GrammarOf(Normalize(file.lines))

FileKind == Normalize(file.lines)[2].s

Sample(row, j) == IF j <= Len(row) THEN row[j] ELSE NaN

IsSequence(v) == v.type = "LUTSequence"

\* C3 as stated: every sequence the reader returns has exactly two stages,
\* a LUT1D or LUT3x1D followed by a LUT3D, as the writer requires.
C3_SequencesAreShaperCube ==
    (pc = "read" /\ out.read = "ok" /\ IsSequence(out.value))
        => /\ Len(out.value.stages) = 2
           /\ out.value.stages[1].type \in {"LUT1D", "LUT3x1D"}
           /\ out.value.stages[2].type = "LUT3D"

\* C3 amended: every sequence the reader returns has exactly two stages and
\* begins with a LUT3x1D; its second stage is a LUT3D when the file's kind
\* is 3D and a LUT3x1D when the kind is 1D, so the writer accepts exactly
\* the sequences read from files of kind 3D.
C3_SequenceShapeByKind ==
    (pc = "read" /\ out.read = "ok" /\ IsSequence(out.value))
        => /\ Len(out.value.stages) = 2
           /\ out.value.stages[1].type = "LUT3x1D"
           /\ out.value.stages[2].type = (IF FileKind = "3D" THEN "LUT3D" ELSE "LUT3x1D")
           /\ SequenceShapeOK(out.value) <=> FileKind = "3D"

C3_Witness ==
    /\ pc = "read" /\ out.read = "ok" /\ IsSequence(out.value)
    /\ FileKind = "1D"
    /\ out.value.stages[2].type = "LUT3x1D"

\* C4: for kind 3D, a shaper block whose channels all have exactly the 2
\* samples (0, 1) -> (0, 1) gives a single LUT3D named by the title and
\* carrying the comments; a block in which some channel declares more than
\* 2 samples gives the sequence of a LUT3x1D "<title> - Shaper", built from
\* the (padded) shaper samples, and a LUT3D "<title> - Cube" with the
\* comments.
C4_Classification3D ==
    (pc = "read" /\ out.read = "ok" /\ WellFormed /\ FileKind = "3D")
        => LET g == Grammar
               n == Max3(g.declared[1], g.declared[2], g.declared[3])
           IN
           /\ (\A c \in 1..3 : /\ g.declared[c] = 2
                                /\ g.domain[c] = <<0, Scale>>
                                /\ g.table[c] = <<0, Scale>>)
                => /\ out.value.type = "LUT3D"
                   /\ out.value.name = g.title
                   /\ out.value.comments = g.comments
           /\ (\E c \in 1..3 : g.declared[c] > 2)
                => /\ IsSequence(out.value)
                   /\ Len(out.value.stages) = 2
                   /\ LET A == out.value.stages[1]
                          B == out.value.stages[2]
                      IN  /\ A.type = "LUT3x1D"
                          /\ A.name = g.title \o " - Shaper"
                          /\ Len(A.domain) = n /\ Len(A.table) = n
                          /\ \A j \in 1..n : \A c \in 1..3 :
                                 /\ A.domain[j][c] = Sample(g.domain[c], j)
                                 /\ A.table[j][c] = Sample(g.table[c], j)
                          /\ B.type = "LUT3D"
                          /\ B.name = g.title \o " - Cube"
                          /\ B.comments = g.comments

C4_Witness ==
    /\ pc = "read" /\ out.read = "ok" /\ WellFormed /\ FileKind = "3D"
    /\ Grammar.declared[1] = 2 /\ Grammar.declared[3] > 2
    /\ Grammar.comments # <<>>
    /\ IsSequence(out.value)
    /\ out.value.stages[1].domain[3][1] = NaN

\* the stages of a writer input, when it has them
HasShaperStage(L) == L.type \in {"LUT1D", "LUT3x1D"} \/ (IsSequence(L) /\ SequenceShapeOK(L))

HasCubeStage(L) == L.type = "LUT3D" \/ (IsSequence(L) /\ SequenceShapeOK(L))

ShaperStageSize(L) == IF IsSequence(L) THEN Size(L.stages[1]) ELSE Size(L)

CubeStageSize(L) == IF IsSequence(L) THEN Size(L.stages[2]) ELSE Size(L)

ShaperOutOfRange(L) ==
    HasShaperStage(L) /\ (ShaperStageSize(L) < 2 \/ ShaperStageSize(L) > ShaperSizeMax)

CubeOutOfRange(L) ==
    HasCubeStage(L) /\ (CubeStageSize(L) < 2 \/ CubeStageSize(L) > CubeSizeMax)

WriteCall == pc = "idle" /\ pc' = "written"

\* C5 as stated: a shaper stage out of [2, 65536] fails the call with the
\* shaper-size error, a cube stage out of [2, 256] fails it with the
\* cube-size error, and a call that fails leaves the file as it was.
C5_SizeErrors ==
    [][WriteCall =>
          /\ ShaperOutOfRange(lut) => out'.write = "ShaperSizeError"
          /\ CubeOutOfRange(lut) => out'.write = "CubeSizeError"
          /\ out'.write # "ok" => file' = file]_vars

\* C5 amended: the cube-size error is the outcome when the cube stage is
\* out of range and the shaper stage, if there is one, is in range; with
\* both out of range the shaper-size error is raised.
C5_SizeErrorsInOrder ==
    [][WriteCall =>
          /\ ShaperOutOfRange(lut) => out'.write = "ShaperSizeError"
          /\ (CubeOutOfRange(lut) /\ ~ShaperOutOfRange(lut)) => out'.write = "CubeSizeError"
          /\ out'.write # "ok" => file' = file]_vars

C5_Witness ==
    /\ pc = "written" /\ out.write = "ShaperSizeError"
    /\ IsSequence(lut) /\ ShaperStageSize(lut) = 1 /\ CubeStageSize(lut) = CubeSizeMax + 1
    /\ file = StaleFile

\* C6: a file with no line, or with blank lines only, fails with the
\* empty-file error, and the header is looked at only when some line is left
\* after normalization.
C6_EmptyAfterNormalization ==
    (pc = "read" /\ file.exists /\ Normalize(file.lines) = <<>>)
        => out.read = "EmptyFileError"

\* the element of a grid (x, y, z from 0; c from 1) in numpy's layout
At4(A, x, y, z, c) == A.data[((x * A.shape[2] + y) * A.shape[3] + z) * 3 + c]

HasCube(v) ==
    \/ v.type = "LUT3D"
    \/ IsSequence(v) /\ Len(v.stages) = 2 /\ v.stages[2].type = "LUT3D"

CubeOf(v) == IF IsSequence(v) THEN v.stages[2].table ELSE v.table

\* row k (from 0) of the table block is the grid element at
\* (k mod Nx, (k div Nx) mod Ny, k div (Nx * Ny))
RowIsPlaced(G, k, vals) ==
    \A c \in 1..3 :
        At4(G, k % G.shape[1], (k \div G.shape[1]) % G.shape[2],
            k \div (G.shape[1] * G.shape[2]), c) = vals[c]

\* C7: the reader places table row k at grid position
\* (k mod Nx, (k div Nx) mod Ny, k div (Nx * Ny)); the writer writes the
\* size line Nx Ny Nz and the rows in that same order; and unflattening a
\* flattened grid gives the grid back, cubic or not.
C7_ColumnMajorBothWays ==
    /\ (pc = "read" /\ out.read = "ok" /\ WellFormed /\ HasCube(out.value))
          => LET g == Grammar
                 G == CubeOf(out.value)
             IN  /\ G.shape = <<g.sizeLine.toks[1].v, g.sizeLine.toks[2].v,
                                 g.sizeLine.toks[3].v, 3>>
                 /\ \A k \in 0..(Len(g.rows) - 1) : RowIsPlaced(G, k, FloatsOf(g.rows[k + 1]))
    /\ (pc = "written" /\ out.write = "ok" /\ HasCube(lut) /\ Len(Grammar.sizeLine.toks) = 3)
          => LET g == Grammar
                 T == CubeOf(lut)
             IN  /\ g.sizeLine.toks = <<IntTok(T.shape[1]), IntTok(T.shape[2]), IntTok(T.shape[3])>>
                 /\ Len(g.rows) = T.shape[1] * T.shape[2] * T.shape[3]
                 /\ \A k \in 0..(Len(g.rows) - 1) : \A c \in 1..3 :
                        g.rows[k + 1].toks[c] =
                            FormatFloat(At4(T, k % T.shape[1],
                                            (k \div T.shape[1]) % T.shape[2],
                                            k \div (T.shape[1] * T.shape[2]), c), dec)
    /\ (pc = "idle" /\ HasCube(lut))
          => LET T == CubeOf(lut)
             IN  ReshapeF(ReshapeF(T, <<Prod(T.shape) \div 3, 3>>), T.shape) = T

C7_Witness ==
    /\ pc = "read" /\ out.write = "ok" /\ out.read = "ok"
    /\ out.value.type = "LUT3D"
    /\ out.value.table.shape = <<2, 3, 4, 3>>
    /\ dec = MaxDecimals
    /\ out.value.table = lut.table

\* C8: every number the writer emits has `decimals` fractional digits,
\* the integers of the size lines apart.
C8_FixedDecimals ==
    (pc = "written" /\ out.write = "ok")
        => \A i \in 1..Len(file.lines) :
              LET toks == file.lines[i].toks
              IN  \/ \A k \in 1..Len(toks) : toks[k].d = -1
                  \/ \A k \in 1..Len(toks) : toks[k].d \in {dec, -2}

\* both channels' samples of a 2-sample shaper block as rows
TwoSamples(g) ==
    \A c \in 1..3 : g.declared[c] = 2 /\ Len(g.domain[c]) = 2 /\ Len(g.table[c]) = 2

\* the result of the branches that do not collapse the shaper
NotCollapsed(g, v) ==
    IF g.kind = "3D" THEN IsSequence(v) /\ Len(v.stages) = 2
    ELSE IF Len(g.rows) = 2
         THEN /\ v.type = "LUT3x1D"
              /\ v.table = Rescale(tstack(g.table[1], g.table[2], g.table[3]),
                                    FloatsOf(g.rows[1]), FloatsOf(g.rows[2]))
         ELSE IsSequence(v) /\ Len(v.stages) = 2

\* C9 as stated: a 2-sample shaper block in which some channel's domain
\* samples or table samples are not (0, 1) is not collapsed.
C9_UnityDomainAndTable ==
    (pc = "read" /\ out.read = "ok" /\ WellFormed /\ TwoSamples(Grammar))
        => LET g == Grammar
           IN  (\E c \in 1..3 : g.domain[c] # <<0, Scale>> \/ g.table[c] # <<0, Scale>>)
                   => NotCollapsed(g, out.value)

\* C9 amended: a 2-sample shaper block is collapsed exactly when every
\* channel's table samples are (0, 1); its domain samples, whatever they
\* are, become the domain of the single LUT returned.
C9_UnityTableOnly ==
    (pc = "read" /\ out.read = "ok" /\ WellFormed /\ TwoSamples(Grammar))
        => LET g == Grammar
               v == out.value
           IN  /\ (\E c \in 1..3 : g.table[c] # <<0, Scale>>) => NotCollapsed(g, v)
               /\ (\A c \in 1..3 : g.table[c] = <<0, Scale>>)
                     => /\ v.type = (IF g.kind = "3D" THEN "LUT3D" ELSE "LUT3x1D")
                        /\ v.name = g.title
                        /\ v.domain = <<[c \in 1..3 |-> g.domain[c][1]],
                                        [c \in 1..3 |-> g.domain[c][2]]>>
                        /\ g.kind = "1D" => v.table = [k \in 1..Len(g.rows) |-> FloatsOf(g.rows[k])]

C9_Witness ==
    /\ pc = "read" /\ out.read = "ok" /\ WellFormed /\ TwoSamples(Grammar)
    /\ Grammar.kind = "3D"
    /\ Grammar.domain[2] = <<H(-10), H(150)>>
    /\ \A c \in 1..3 : Grammar.table[c] = <<0, Scale>>
    /\ out.value.type = "LUT3D"
    /\ out.value.domain = <<<<0, H(-10), 0>>, <<Scale, H(150), Scale>>>>

\* C10: a written file of kind 3D is accepted by the reader, its table block
\* is a three-integer size line and Nx * Ny * Nz rows, and what the reader
\* returns holds a LUT3D equal to the cube written.
C10_CubeKept ==
    (pc = "read" /\ out.write = "ok" /\ FileKind = "3D")
        => /\ Len(Grammar.sizeLine.toks) = 3
           /\ Len(Grammar.rows) = Prod(CubeOf(lut).shape) \div 3
           /\ out.read = "ok"
           /\ HasCube(out.value)
           /\ ApproxArray(CubeOf(out.value), CubeOf(lut), dec)

====
